---- MODULE Spec2Model ----
(***************************************************************************)
(* Scoring engine of the Backtest repository: the diffusion scorers (ISM,  *)
(* NMI), the band scorer (UMCSI), the M2 cascade, the series accumulators  *)
(* that feed them and their query methods, and the nearest-threshold       *)
(* scorers (CPI, interest rate, permits).                                  *)
(*                                                                         *)
(* Numbers.  Python floats are modelled as exact fixed-point integers:     *)
(*   - accumulator values, changes and scores are in hundredths            *)
(*     (52.0 is 5200, a score of 5.8 is 580); M2 values, thresholds and    *)
(*     scores too (0.30 is 30, a score of 10 is 1000, of 0.10 is 10);      *)
(*   - CPI inputs and keys are in thousandths (1.4 is 1400);               *)
(*   - interest-rate inputs and keys are in tenths (2.5 is 25);            *)
(*   - permits inputs and keys are in units.                               *)
(* Accumulator inputs are drawn from multiples of 0.5, so that change/2 is *)
(* a multiple of 0.25: such numbers are exact in binary floating point and *)
(* round(x, 1) is then Python's round-half-to-even on the exact value.     *)
(* The binary rounding of the decimal CPI keys is modelled where it decides *)
(* a comparison (CPI_float_skew).                                          *)
(*                                                                         *)
(* Optional values: None is the empty tuple, a present value x is <<x>>.   *)
(* Dates play no part in scoring and are left out of the records.          *)
(*                                                                         *)
(* result is the outcome of the last call made on an accumulator: what it  *)
(* returned, or the exception it raised.                                   *)
(*                                                                         *)
(* A stored point whose value attribute is None is a record without the    *)
(* value field; only the state machine with absent values stores such      *)
(* points (an arithmetic or ordering operation on None raises TypeError).  *)
(***************************************************************************)
EXTENDS Integers, Sequences, FiniteSets, TLC

VARIABLES kind, data_points, calls, point, result

accVars == <<kind, data_points, calls, result>>
vars == <<kind, data_points, calls, point, result>>

---------------------------------------------------------------------------
(* Bounds of the model *)

\* the longest series an accumulator is fed
MaxLen == 3
\* how far beyond a threshold table's range the scorer inputs go
CPIReach == 300
IRReach == 100
PermitReach == 400
\* the longest series when two accumulators run side by side
MaxPairLen == 2
\* how far beyond the UMCSI band 55..105 the band scorer inputs go, hundredths
UMCSIReach == 200
\* how far beyond the M2 cascade's bounds -0.5 and 0.5 its inputs go, hundredths
M2Reach == 50

---------------------------------------------------------------------------
(* Python helpers *)

None == <<>>
Some(x) == <<x>>
IsNone(o) == o = <<>>
Get(o) == o[1]

Abs(x) == IF x < 0 THEN -x ELSE x
Min(a, b) == IF b < a THEN b ELSE a
Max(a, b) == IF b > a THEN b ELSE a

\* x / 2 on hundredths; every change of the model is a multiple of 50
Half(x) == x \div 2

\* round(x, 1) on hundredths: to the nearest tenth, exact ties to the even tenth
Round1(x) ==
    LET q == x \div 10
        r == x % 10
    IN  IF r < 5 THEN q * 10
        ELSE IF r > 5 THEN (q + 1) * 10
        ELSE IF q % 2 = 0 THEN q * 10 ELSE (q + 1) * 10

\* mutant: exact ties go up
RoundInt_half_up(x) == (x + 50) \div 100

\* int(round(x)) on hundredths: to the nearest integer, exact ties to the even one
RoundInt(x) ==
    LET q == x \div 100
        r == x % 100
    IN  IF r < 50 THEN q
        ELSE IF r > 50 THEN q + 1
        ELSE IF q % 2 = 0 THEN q ELSE q + 1

\* seq[-n:] for n >= 0: a negative start counts from the end and stops at the
\* front; -0 is 0, the front itself
PySliceLast(seq, n) ==
    LET start == IF -n < 0 THEN Max(Len(seq) - n, 0) ELSE Min(-n, Len(seq))
    IN  SubSeq(seq, start + 1, Len(seq))

\* the diffusion threshold 50, in hundredths
Fifty == 5000

ScoreInfo(score, bias, phase, scenario) ==
    Some([score |-> Round1(score), bias |-> bias, phase |-> phase,
          scenario |-> scenario])

---------------------------------------------------------------------------
(* ISM.py *)

\* mutant: the trough needs a current value strictly below 50
ISM_is_trough_strict(previous_ism, current_ism) ==
    ~IsNone(previous_ism) /\ Get(previous_ism) > Fifty /\ current_ism < Fifty

\* Scenario 5: previous above 50, current at or below 50
ISM_is_trough(previous_ism, current_ism) ==
    ~IsNone(previous_ism) /\ Get(previous_ism) > Fifty /\ current_ism <= Fifty

\* Scenario 6: previous below 50, current at or above 50
ISM_is_peak(previous_ism, current_ism) ==
    ~IsNone(previous_ism) /\ Get(previous_ism) < Fifty /\ current_ism >= Fifty

\* mutant: the bonus for the size of the change is not capped at 2
ISM_trough_score_uncapped(ism_change) == 800 + Half(Abs(ism_change))

ISM_trough_score(ism_change) == 800 + Min(200, Half(Abs(ism_change)))

ISM_peak_score(ism_change) == -800 - Min(200, Half(ism_change))

\* Scenarios 1-4
ISM_standard(current_ism, ism_change) ==
    IF current_ism > Fifty
    THEN IF ism_change > 0
         THEN ScoreInfo(500 + Min(300, Half(ism_change)),
                        "Short Bias", "Initiation", "Above 50 and growing")
         ELSE ScoreInfo(Max(0, 500 + ism_change),
                        "Short Bias", "Initiation", "Above 50 and slowing")
    ELSE IF ism_change < 0
         THEN ScoreInfo(-500 - Min(300, Half(Abs(ism_change))),
                        "Long Bias", "Definition", "Below 50 and slowing")
         ELSE ScoreInfo(Min(0, -500 + ism_change),
                        "Long Bias", "Definition", "Below 50 and growing")

\* mutant: the transition check is left out
ISM_score_standard_only(current_ism, ism_change, previous_ism) ==
    ISM_standard(current_ism, ism_change)

\* the rest of calculate_score once change is known to be present
ISM_score_with_change(current_ism, ism_change, previous_ism) ==
    IF ISM_is_trough(previous_ism, current_ism)
    THEN ScoreInfo(ISM_trough_score(ism_change),
                   "Long Bias", "Project Diffusion", "ISM troughs below 50")
    ELSE IF ISM_is_peak(previous_ism, current_ism)
    THEN ScoreInfo(ISM_peak_score(ism_change),
                   "Short Bias", "Project Initiation", "ISM peaks above 50")
    ELSE ISM_standard(current_ism, ism_change)

\* the new score_info of the point (None: the early return leaves it unset)
ISMDataPoint_calculate_score(value, change, previous_ism) ==
    IF IsNone(change) THEN None
    ELSE ISM_score_with_change(value, Get(change), previous_ism)

ScoreField(score_info) ==
    IF IsNone(score_info) THEN None ELSE Some(Get(score_info).score)
BiasField(score_info) ==
    IF IsNone(score_info) THEN None ELSE Some(Get(score_info).bias)
PhaseField(score_info) ==
    IF IsNone(score_info) THEN None ELSE Some(Get(score_info).phase)
ScenarioField(score_info) ==
    IF IsNone(score_info) THEN None ELSE Some(Get(score_info).scenario)

ISMDataPoint_to_dict(p) ==
    [value |-> p.value, change |-> p.change,
     score |-> ScoreField(p.score_info), bias |-> BiasField(p.score_info),
     phase |-> PhaseField(p.score_info),
     scenario |-> ScenarioField(p.score_info)]

\* change as stored: derived from the last stored value when not supplied
ISMData_change(dps, value, change) ==
    IF IsNone(change) /\ Len(dps) > 0
    THEN Some(value - dps[Len(dps)].value)
    ELSE change

\* mutant: an empty series passes 0 as the previous value instead of None
ISMData_previous_ism_zero(dps) ==
    IF Len(dps) > 0 THEN Some(dps[Len(dps)].value) ELSE Some(0)

ISMData_previous_ism(dps) ==
    IF Len(dps) > 0 THEN Some(dps[Len(dps)].value) ELSE None

ISMData_new_point(dps, value, change) ==
    LET c == ISMData_change(dps, value, change)
    IN  [value |-> value, change |-> c,
         score_info |-> ISMDataPoint_calculate_score(value, c,
                                                     ISMData_previous_ism(dps))]

ISMData_get_all_data(dps) ==
    [n \in 1 .. Len(dps) |-> ISMDataPoint_to_dict(dps[n])]

ISMData_get_last_n_months(dps, n) ==
    LET last == PySliceLast(dps, n)
    IN  [m \in 1 .. Len(last) |-> ISMDataPoint_to_dict(last[m])]

ISMData_get_current_score(dps) ==
    IF dps = <<>> THEN None ELSE Some(ISMDataPoint_to_dict(dps[Len(dps)]))

---------------------------------------------------------------------------
(* NMI.py *)

NMI_is_trough(previous_NMI, current_NMI) ==
    ~IsNone(previous_NMI) /\ Get(previous_NMI) > Fifty /\ current_NMI <= Fifty

\* mutant: a previous value of exactly 50 counts as below
NMI_is_peak_inclusive(previous_NMI, current_NMI) ==
    ~IsNone(previous_NMI) /\ Get(previous_NMI) <= Fifty /\ current_NMI >= Fifty

NMI_is_peak(previous_NMI, current_NMI) ==
    ~IsNone(previous_NMI) /\ Get(previous_NMI) < Fifty /\ current_NMI >= Fifty

NMI_trough_score(NMI_change) == -800 - Min(200, Half(Abs(NMI_change)))

NMI_peak_score(NMI_change) == 800 + Min(200, Half(NMI_change))

\* mutant: a current value of exactly 50 counts as above
NMI_standard_at_50_above(current_NMI, NMI_change) ==
    IF current_NMI >= Fifty
    THEN IF NMI_change > 0
         THEN ScoreInfo(500 + Min(300, Half(NMI_change)),
                        "Short Bias", "Initiation", "Above 50 and growing")
         ELSE ScoreInfo(Max(0, 500 + NMI_change),
                        "Short Bias", "Initiation", "Above 50 and slowing")
    ELSE IF NMI_change < 0
         THEN ScoreInfo(-500 - Min(300, Half(Abs(NMI_change))),
                        "Long Bias", "Definition", "Below 50 and slowing")
         ELSE ScoreInfo(Min(0, -500 + NMI_change),
                        "Long Bias", "Definition", "Below 50 and growing")

NMI_standard(current_NMI, NMI_change) ==
    IF current_NMI > Fifty
    THEN IF NMI_change > 0
         THEN ScoreInfo(500 + Min(300, Half(NMI_change)),
                        "Short Bias", "Initiation", "Above 50 and growing")
         ELSE ScoreInfo(Max(0, 500 + NMI_change),
                        "Short Bias", "Initiation", "Above 50 and slowing")
    ELSE IF NMI_change < 0
         THEN ScoreInfo(-500 - Min(300, Half(Abs(NMI_change))),
                        "Long Bias", "Definition", "Below 50 and slowing")
         ELSE ScoreInfo(Min(0, -500 + NMI_change),
                        "Long Bias", "Definition", "Below 50 and growing")

NMI_score_with_change(current_NMI, NMI_change, previous_NMI) ==
    IF NMI_is_trough(previous_NMI, current_NMI)
    THEN ScoreInfo(NMI_trough_score(NMI_change),
                   "Long Bias", "Project Diffusion", "NMI troughs below 50")
    ELSE IF NMI_is_peak(previous_NMI, current_NMI)
    THEN ScoreInfo(NMI_peak_score(NMI_change),
                   "Short Bias", "Project Initiation", "NMI peaks above 50")
    ELSE NMI_standard(current_NMI, NMI_change)

\* mutant: a missing change falls through with the initial default values
NMIDataPoint_calculate_score_default(value, change, previous_NMI) ==
    IF IsNone(change) THEN ScoreInfo(0, "Neutral Bias", "Normal", "Standard")
    ELSE NMI_score_with_change(value, Get(change), previous_NMI)

NMIDataPoint_calculate_score(value, change, previous_NMI) ==
    IF IsNone(change) THEN None
    ELSE NMI_score_with_change(value, Get(change), previous_NMI)

NMIDataPoint_to_dict(p) ==
    [value |-> p.value, change |-> p.change,
     score |-> ScoreField(p.score_info), bias |-> BiasField(p.score_info),
     phase |-> PhaseField(p.score_info),
     scenario |-> ScenarioField(p.score_info)]

NMIData_change(dps, value, change) ==
    IF IsNone(change) /\ Len(dps) > 0
    THEN Some(value - dps[Len(dps)].value)
    ELSE change

NMIData_previous_NMI(dps) ==
    IF Len(dps) > 0 THEN Some(dps[Len(dps)].value) ELSE None

NMIData_new_point(dps, value, change) ==
    LET c == NMIData_change(dps, value, change)
    IN  [value |-> value, change |-> c,
         score_info |-> NMIDataPoint_calculate_score(value, c,
                                                     NMIData_previous_NMI(dps))]

NMIData_get_all_data(dps) ==
    [n \in 1 .. Len(dps) |-> NMIDataPoint_to_dict(dps[n])]

NMIData_get_last_n_months(dps, n) ==
    LET last == PySliceLast(dps, n)
    IN  [m \in 1 .. Len(last) |-> NMIDataPoint_to_dict(last[m])]

NMIData_get_current_score(dps) ==
    IF dps = <<>> THEN None ELSE Some(NMIDataPoint_to_dict(dps[Len(dps)]))

---------------------------------------------------------------------------
(* UMCSI.py *)

\* score_map: every integer 55..105
score_map ==
    [k \in 55..105 |->
       CASE k \in {55, 56, 94, 95} -> 10
         [] k \in {57, 58, 92, 93} -> 9
         [] k \in {59, 90, 91}     -> 8
         [] k \in {60, 88, 89}     -> 7
         [] k \in {61, 86, 87}     -> 6
         [] k \in {62, 84, 85}     -> 5
         [] k \in {82, 83}         -> 4
         [] k \in {80, 81}         -> 3
         [] k \in {78, 79}         -> 2
         [] k \in {76, 77}         -> 1
         [] k \in {74, 75}         -> 0
         [] k \in {72, 73}         -> -1
         [] k = 71                 -> -2
         [] k = 70                 -> -3
         [] k = 69                 -> -4
         [] k \in {68, 96, 97}     -> -5
         [] k \in {67, 98, 99}     -> -6
         [] k \in {66, 100}        -> -7
         [] k \in {65, 101}        -> -8
         [] k \in {64, 102, 103}   -> -9
         [] k \in {63, 104, 105}   -> -10]

\* mutant: the rounded value is looked up without clamping
UMCSI_unclamped_value(value) == RoundInt(value)

\* rounded_value, then clamped_value: the key that is looked up
UMCSI_clamped_value(value) ==
    LET rounded_value == RoundInt(value)
    IN  Max(55, Min(105, rounded_value))

\* the new score of a point whose value is present
UMCSIDataPoint_calculate_score(value) ==
    LET clamped_value == UMCSI_clamped_value(value)
    IN  IF clamped_value \in DOMAIN score_map
        THEN Some(score_map[clamped_value]) ELSE Some(0)

UMCSIDataPoint_to_dict(p) ==
    [value |-> p.value, change |-> p.change, score |-> p.score]

\* mutant: the derived change is previous minus current
UMCSIData_change_reversed(dps, value, change) ==
    IF IsNone(change) /\ Len(dps) > 0
    THEN Some(dps[Len(dps)].value - value)
    ELSE change

UMCSIData_change(dps, value, change) ==
    IF IsNone(change) /\ Len(dps) > 0
    THEN Some(value - dps[Len(dps)].value)
    ELSE change

UMCSIData_new_point(dps, value, change) ==
    [value |-> value, change |-> UMCSIData_change(dps, value, change),
     score |-> UMCSIDataPoint_calculate_score(value)]

UMCSIData_get_all_data(dps) ==
    [n \in 1 .. Len(dps) |-> UMCSIDataPoint_to_dict(dps[n])]

UMCSIData_get_last_n_months(dps, n) ==
    LET last == PySliceLast(dps, n)
    IN  [m \in 1 .. Len(last) |-> UMCSIDataPoint_to_dict(last[m])]

UMCSIData_get_current_score(dps) ==
    IF dps = <<>> THEN None ELSE Some(UMCSIDataPoint_to_dict(dps[Len(dps)]))

---------------------------------------------------------------------------
(* M2.py *)

\* the if/elif cascade as written, top to bottom: the inclusive lower bound of
\* each band and its score, in hundredths
M2_bands ==
    << <<50, 400>>, <<40, 600>>, <<30, 1000>>, <<20, 800>>, <<15, 600>>,
       <<10, 400>>, <<50, 0>>, <<0, -400>>, <<-50, -800>>, <<-10, -1000>>,
       <<-15, 800>>, <<-20, 1000>>, <<-30, 1000>>, <<-40, 1000>> >>

\* the score of the final else, 0.10
M2_else_score == 10

\* mutant: the last band whose bound the value reaches is selected
MonetaryDataPoint_band_last_match(value) ==
    LET reached == {j \in DOMAIN M2_bands : value >= M2_bands[j][1]}
    IN  IF reached = {} THEN Len(M2_bands) + 1
        ELSE CHOOSE j \in reached : \A k \in reached : k <= j

\* the first band from j on whose bound the value reaches; past the last
\* band, the final else
RECURSIVE M2_first_match(_, _)
M2_first_match(value, j) ==
    IF j > Len(M2_bands) THEN j
    ELSE IF value >= M2_bands[j][1] THEN j
    ELSE M2_first_match(value, j + 1)

\* the branch of the cascade that is taken: 1 to 14, or 15 for the else
MonetaryDataPoint_band(value) == M2_first_match(value, 1)

MonetaryDataPoint_calculate_score(value) ==
    LET band == MonetaryDataPoint_band(value)
    IN  IF band > Len(M2_bands) THEN M2_else_score ELSE M2_bands[band][2]

\* mutant: the average needs three earlier points
MonetaryDataPoint_has_metrics_after_three(previous_points) ==
    Len(previous_points) >= 3

\* the guard of calculate_metrics
MonetaryDataPoint_has_metrics(previous_points) == Len(previous_points) >= 2

\* sum(recent_values): three times three_month_avg, in hundredths; the model
\* keeps the average as this sum, so that it stays exact
MonetaryDataPoint_recent_sum(previous_points, value) ==
    LET k == Len(previous_points)
    IN  previous_points[k - 1].value + previous_points[k].value + value

\* the point after __init__ and calculate_metrics
MonetaryDataPoint_calculate_metrics(previous_points, value) ==
    IF MonetaryDataPoint_has_metrics(previous_points)
    THEN [value |-> value,
          three_month_avg |->
              Some(MonetaryDataPoint_recent_sum(previous_points, value)),
          percent_change |-> None,
          score |-> Some(MonetaryDataPoint_calculate_score(value))]
    ELSE [value |-> value, three_month_avg |-> None, percent_change |-> None,
          score |-> None]

\* round(three_month_avg, 2) on the kept sum: the nearest hundredth to sum / 3
\* (a third is never halfway between two hundredths)
M2_round2(sum) == (2 * sum + 3) \div 6

\* None and 0 are both falsy, and export as None
MonetaryDataPoint_to_dict(p) ==
    [value |-> p.value,
     three_month_avg |->
         IF IsNone(p.three_month_avg) \/ Get(p.three_month_avg) = 0
         THEN None ELSE Some(M2_round2(Get(p.three_month_avg))),
     percent_change |->
         IF IsNone(p.percent_change) \/ Get(p.percent_change) = 0
         THEN None ELSE p.percent_change,
     score |-> p.score]

\* the point add_data_point appends: scored again only if percent_change is set
MonetaryData_new_point(dps, value) ==
    LET new_point == MonetaryDataPoint_calculate_metrics(dps, value)
    IN  IF ~IsNone(new_point.percent_change)
        THEN [new_point EXCEPT
                !.score = Some(MonetaryDataPoint_calculate_score(value))]
        ELSE new_point

\* the points whose percent_change is set
MonetaryData_valid_points(dps) ==
    SelectSeq(dps, LAMBDA p : ~IsNone(p.percent_change))

MonetaryData_get_all_data(dps) ==
    LET valid_points == MonetaryData_valid_points(dps)
    IN  [n \in 1 .. Len(valid_points) |-> MonetaryDataPoint_to_dict(valid_points[n])]

MonetaryData_get_last_n_months(dps, n) ==
    LET last == PySliceLast(MonetaryData_valid_points(dps), n)
    IN  [m \in 1 .. Len(last) |-> MonetaryDataPoint_to_dict(last[m])]

MonetaryData_get_current_score(dps) ==
    LET valid_points == MonetaryData_valid_points(dps)
    IN  IF valid_points = <<>> THEN None
        ELSE Some(MonetaryDataPoint_to_dict(valid_points[Len(valid_points)]))

---------------------------------------------------------------------------
(* Nearest-threshold scorers: CPIUCSL.py, IR%.py, PermitsSA.py *)

\* min(score_table.keys(), key=lambda x: abs(x - v)) over a dict: the index of
\* the first key, in insertion order, whose distance to v no later key undercuts
RECURSIVE MinFrom(_, _, _, _)
MinFrom(table, v, i, best) ==
    IF i > Len(table) THEN best
    ELSE MinFrom(table, v, i + 1,
                 IF Abs(table[i][1] - v) < Abs(table[best][1] - v)
                 THEN i ELSE best)

\* mutant: on a tie the later key replaces the earlier one
RECURSIVE MinFromLast(_, _, _, _)
MinFromLast(table, v, i, best) ==
    IF i > Len(table) THEN best
    ELSE MinFromLast(table, v, i + 1,
                     IF Abs(table[i][1] - v) <= Abs(table[best][1] - v)
                     THEN i ELSE best)

PyMin_last(table, v) == table[MinFromLast(table, v, 2, 1)]

\* the (key, score) entry of the key Python's min returns
PyMin(table, v) == table[MinFrom(table, v, 2, 1)]

\* The CPI keys are decimal literals, which doubles hold only approximately.
\* At four decimal midpoints the double of the input is strictly nearer the
\* double of the later key, so abs(x[0] - cpi_12ma) is larger for the earlier
\* key there: 0.7 (keys 0.8, 0.6), 0.35 (0.4, 0.3), -0.55 (-0.5, -0.6) and
\* -0.65 (-0.6, -0.7).  At every other input in thousandths the comparison
\* of the doubles agrees with the comparison of the decimals.
CPI_float_skew ==
    { <<800, 700>>, <<400, 350>>, <<-500, -550>>, <<-600, -650>> }

\* mutant: the distance without abs
CPI_distance_signed(key, cpi_12ma) == 2 * (key - cpi_12ma)

\* abs(x[0] - cpi_12ma), in half thousandths
CPI_distance(key, cpi_12ma) ==
    2 * Abs(key - cpi_12ma) + (IF <<key, cpi_12ma>> \in CPI_float_skew THEN 1 ELSE 0)

\* min(score_table, key=lambda x: abs(x[0] - cpi_12ma)) over the list
RECURSIVE CPI_MinFrom(_, _, _, _)
CPI_MinFrom(table, v, i, best) ==
    IF i > Len(table) THEN best
    ELSE CPI_MinFrom(table, v, i + 1,
                     IF CPI_distance(table[i][1], v) < CPI_distance(table[best][1], v)
                     THEN i ELSE best)

\* mutant: the search starts at the second entry and never returns the first
CPI_closest_skip_first(table, cpi_12ma) == table[CPI_MinFrom(table, cpi_12ma, 3, 2)]

CPI_closest(table, cpi_12ma) == table[CPI_MinFrom(table, cpi_12ma, 2, 1)]

\* CPI score_table, thousandths, in declaration order
CPI_score_table ==
    << <<1400, 3>>, <<1200, 6>>, <<1000, 10>>, <<800, 8>>, <<600, 6>>,
       <<400, 4>>, <<300, 0>>, <<0, 0>>, <<-100, -6>>, <<-200, -8>>,
       <<-300, -10>>, <<-400, 6>>, <<-500, 8>>, <<-600, 10>>, <<-700, 10>> >>

\* the 0.01 of the zero guard, in thousandths
CPIZeroGuard == 10

\* mutant: no zero guard
CPI_score_on_unguarded(table, cpi_12ma) == CPI_closest(table, cpi_12ma)[2]

\* calculate_score over a given table
CPI_score_on(table, cpi_12ma) ==
    IF Abs(cpi_12ma) < CPIZeroGuard THEN 0
    ELSE CPI_closest(table, cpi_12ma)[2]

CPIDataPoint_calculate_score(cpi_12ma) == CPI_score_on(CPI_score_table, cpi_12ma)

\* interest-rate score_table, tenths, in insertion order of the dict
IR_score_table ==
    << <<600, -10>>, <<500, -10>>, <<400, -10>>, <<300, -10>>,
       <<200, -10>>, <<150, -9>>, <<100, -6>>, <<50, -3>>,
       <<0, 0>>, <<-50, 0>>, <<-100, 3>>, <<-150, 5>>,
       <<-200, 7>>, <<-300, -8>>, <<-400, -9>>, <<-500, -10>>, <<-600, -10>> >>

\* _calculate_score over a given table
IR_score_on(table, rate_value) == PyMin(table, rate_value)[2]

InterestRateDataPoint_calculate_score(rate_value) ==
    IR_score_on(IR_score_table, rate_value)

\* permits score_table, units, in insertion order of the dict
Permit_score_table ==
    << <<400, 10>>, <<500, 10>>, <<600, 10>>, <<700, 7>>, <<800, -8>>,
       <<900, -5>>, <<1000, -3>>, <<1100, 0>>, <<1200, 2>>, <<1300, 3>>,
       <<1400, 4>>, <<1500, 5>>, <<1600, 8>>, <<1700, 9>>, <<1800, 10>>,
       <<1900, -7>>, <<2000, -9>>, <<2100, -10>>, <<2200, -10>>, <<2300, -10>>,
       <<2400, -10>> >>

Permit_score_on(table, value) == PyMin(table, value)[2]

PermitDataPoint_calculate_score(value) == Permit_score_on(Permit_score_table, value)

---------------------------------------------------------------------------
(* Inputs *)

Instances == {1, 2}
Kinds == {"ISM", "NMI", "UMCSI", "M2"}
NoKind == "none"

\* readings fed to the accumulators, hundredths, multiples of 0.5
ISMValues == {4900, 5000, 5100, 5200, 5350}
NMIValues == {4900, 5000, 5100, 5200, 5350}
UMCSIValues == {5450, 5500, 6250, 6350, 10550}
\* M2 readings, hundredths: 0.60 and 0.35 (the >= 0.50 and >= 0.30 branches),
\* 0.05 (>= 0.0), -0.30 (>= -0.5) and -0.60 (the final else)
M2Values == {-60, -30, 5, 35, 60}

\* the change argument: absent, or supplied by the caller
Changes == {None} \cup {Some(c) : c \in {-700, 700}}

CPIInputs == (-700 - CPIReach) .. (1400 + CPIReach)
IRInputs == (-600 - IRReach) .. (600 + IRReach)
UMCSIInputs == (5500 - UMCSIReach) .. (10500 + UMCSIReach)
PermitInputs == (400 - PermitReach) .. (2400 + PermitReach)
M2Inputs == (-50 - M2Reach) .. (50 + M2Reach)

\* the inputs of the state machines that also query, or run two accumulators
QueryISMValues == {5000, 5200}
QueryNMIValues == {5000, 5200}
QueryUMCSIValues == {5500, 6350}
QueryM2Values == {5, 35}
QueryChanges == {None, Some(700)}
\* degenerate readings: absent, ordinary, and far outside every table
DegenerateISMValues == {None, Some(5200), Some(-100000), Some(100000)}
DegenerateNMIValues == {None, Some(5200), Some(-100000), Some(100000)}
DegenerateUMCSIValues == {None, Some(6350), Some(-100000), Some(100000)}
DegenerateM2Values == {None, Some(35), Some(-100000), Some(100000)}
\* readings from 30.0 to 70.0 whose differences go from 1.0 to 40.0, so that
\* derived changes fall below and above the caps of every branch
DerivedValues == {3000, 4900, 5000, 5100, 5800, 7000}
\* the argument of get_last_n_months: from 0 to past the longest series
QueryN == 0 .. (MaxLen + 1)

NoPoint == [cls |-> "none", input |-> 0, score |-> None]

NoError == "none"
\* no call has been made yet
NoResult ==
    [self |-> 0, op |-> "none", arg |-> 0, returned |-> None, raised |-> NoError]

---------------------------------------------------------------------------
(* State machine *)

\* instance 1 is an accumulator of one of the classes; instance 2 is not built
Init ==
    /\ kind \in [Instances -> Kinds \cup {NoKind}]
    /\ kind[1] # NoKind
    /\ kind[2] = NoKind
    /\ data_points = [i \in Instances |-> <<>>]
    /\ calls = [i \in Instances |-> <<>>]
    /\ point = NoPoint
    /\ result = NoResult

Record(i, value, change) ==
    calls' = [calls EXCEPT ![i] = Append(@, [value |-> value, change |-> change])]

\* the call op(arg) on instance i returns
Returns(i, op, arg, returned) ==
    result' = [self |-> i, op |-> op, arg |-> arg, returned |-> returned,
               raised |-> NoError]

\* the call op(arg) on instance i raises
Raises(i, op, arg, exception) ==
    result' = [self |-> i, op |-> op, arg |-> arg, returned |-> None,
               raised |-> exception]

\* mutant: the new point is put first
ISMData_add_data_point_prepend(i, value, change) ==
    /\ kind[i] = "ISM"
    /\ Len(data_points[i]) < MaxLen
    /\ data_points' = [data_points EXCEPT
                         ![i] = <<ISMData_new_point(@, value, change)>> \o @]
    /\ Record(i, value, change)
    /\ Returns(i, "add_data_point", 0, None)
    /\ UNCHANGED <<kind, point>>

\* mutant: data_points is one list shared by every ISMData
ISMData_add_data_point_shared(i, value, change) ==
    /\ kind[i] = "ISM"
    /\ Len(data_points[i]) < MaxLen
    /\ data_points' =
         [j \in Instances |->
            IF kind[j] = "ISM"
            THEN Append(data_points[j],
                        ISMData_new_point(data_points[i], value, change))
            ELSE data_points[j]]
    /\ Record(i, value, change)
    /\ Returns(i, "add_data_point", 0, None)
    /\ UNCHANGED <<kind, point>>

ISMData_add_data_point(i, value, change) ==
    /\ kind[i] = "ISM"
    /\ Len(data_points[i]) < MaxLen
    /\ data_points' = [data_points EXCEPT
                         ![i] = Append(@, ISMData_new_point(@, value, change))]
    /\ Record(i, value, change)
    /\ Returns(i, "add_data_point", 0, None)
    /\ UNCHANGED <<kind, point>>

NMIData_add_data_point(i, value, change) ==
    /\ kind[i] = "NMI"
    /\ Len(data_points[i]) < MaxLen
    /\ data_points' = [data_points EXCEPT
                         ![i] = Append(@, NMIData_new_point(@, value, change))]
    /\ Record(i, value, change)
    /\ Returns(i, "add_data_point", 0, None)
    /\ UNCHANGED <<kind, point>>

UMCSIData_add_data_point(i, value, change) ==
    /\ kind[i] = "UMCSI"
    /\ Len(data_points[i]) < MaxLen
    /\ data_points' = [data_points EXCEPT
                         ![i] = Append(@, UMCSIData_new_point(@, value, change))]
    /\ Record(i, value, change)
    /\ Returns(i, "add_data_point", 0, None)
    /\ UNCHANGED <<kind, point>>

MonetaryData_add_data_point(i, value) ==
    /\ kind[i] = "M2"
    /\ Len(data_points[i]) < MaxLen
    /\ data_points' = [data_points EXCEPT
                         ![i] = Append(@, MonetaryData_new_point(@, value))]
    /\ Record(i, value, None)
    /\ Returns(i, "add_data_point", 0, None)
    /\ UNCHANGED <<kind, point>>

Next ==
    \/ \E i \in Instances, change \in Changes :
        \/ \E value \in ISMValues : ISMData_add_data_point(i, value, change)
        \/ \E value \in NMIValues : NMIData_add_data_point(i, value, change)
        \/ \E value \in UMCSIValues : UMCSIData_add_data_point(i, value, change)
    \/ \E i \in Instances, value \in M2Values :
          MonetaryData_add_data_point(i, value)

Spec == Init /\ [][Next]_vars

\* no accumulator is built; one threshold data point is about to be made
InitScorer ==
    /\ kind = [i \in Instances |-> NoKind]
    /\ data_points = [i \in Instances |-> <<>>]
    /\ calls = [i \in Instances |-> <<>>]
    /\ point = NoPoint
    /\ result = NoResult

\* the loaders' loop body for one row: build the row's point and score it
CPIDataPoint_score(cpi_12ma) ==
    /\ point = NoPoint
    /\ point' = [cls |-> "CPI", input |-> cpi_12ma,
                 score |-> Some(CPIDataPoint_calculate_score(cpi_12ma))]
    /\ UNCHANGED accVars

InterestRateDataPoint_init(rate_value) ==
    /\ point = NoPoint
    /\ point' = [cls |-> "IR", input |-> rate_value,
                 score |-> Some(InterestRateDataPoint_calculate_score(rate_value))]
    /\ UNCHANGED accVars

PermitDataPoint_init(value) ==
    /\ point = NoPoint
    /\ point' = [cls |-> "Permit", input |-> value,
                 score |-> Some(PermitDataPoint_calculate_score(value))]
    /\ UNCHANGED accVars

\* a UMCSI point is built and scored
UMCSIDataPoint_score(value) ==
    /\ point = NoPoint
    /\ point' = [cls |-> "UMCSI", input |-> value,
                 score |-> UMCSIDataPoint_calculate_score(value)]
    /\ UNCHANGED accVars

\* an M2 point is built and scored
MonetaryDataPoint_score(value) ==
    /\ point = NoPoint
    /\ point' = [cls |-> "M2", input |-> value,
                 score |-> Some(MonetaryDataPoint_calculate_score(value))]
    /\ UNCHANGED accVars

NextScorer ==
    \/ \E v \in M2Inputs : MonetaryDataPoint_score(v)
    \/ \E v \in UMCSIInputs : UMCSIDataPoint_score(v)
    \/ \E v \in CPIInputs : CPIDataPoint_score(v)
    \/ \E v \in IRInputs : InterestRateDataPoint_init(v)
    \/ \E v \in PermitInputs : PermitDataPoint_init(v)

SpecScorer == InitScorer /\ [][NextScorer]_vars

---------------------------------------------------------------------------
(* State machine with the query methods *)

\* a read-only method of the accumulator class cls returns
Query(i, cls, op, arg, returned) ==
    /\ kind[i] = cls
    /\ Returns(i, op, arg, returned)
    /\ UNCHANGED <<kind, data_points, calls, point>>

Call_ISMData_get_all_data(i) ==
    Query(i, "ISM", "get_all_data", 0, ISMData_get_all_data(data_points[i]))
Call_ISMData_get_last_n_months(i, n) ==
    Query(i, "ISM", "get_last_n_months", n,
          ISMData_get_last_n_months(data_points[i], n))
Call_ISMData_get_current_score(i) ==
    Query(i, "ISM", "get_current_score", 0,
          ISMData_get_current_score(data_points[i]))

Call_NMIData_get_all_data(i) ==
    Query(i, "NMI", "get_all_data", 0, NMIData_get_all_data(data_points[i]))
Call_NMIData_get_last_n_months(i, n) ==
    Query(i, "NMI", "get_last_n_months", n,
          NMIData_get_last_n_months(data_points[i], n))
Call_NMIData_get_current_score(i) ==
    Query(i, "NMI", "get_current_score", 0,
          NMIData_get_current_score(data_points[i]))

Call_UMCSIData_get_all_data(i) ==
    Query(i, "UMCSI", "get_all_data", 0, UMCSIData_get_all_data(data_points[i]))
Call_UMCSIData_get_last_n_months(i, n) ==
    Query(i, "UMCSI", "get_last_n_months", n,
          UMCSIData_get_last_n_months(data_points[i], n))
Call_UMCSIData_get_current_score(i) ==
    Query(i, "UMCSI", "get_current_score", 0,
          UMCSIData_get_current_score(data_points[i]))

Call_MonetaryData_get_all_data(i) ==
    Query(i, "M2", "get_all_data", 0, MonetaryData_get_all_data(data_points[i]))
Call_MonetaryData_get_last_n_months(i, n) ==
    Query(i, "M2", "get_last_n_months", n,
          MonetaryData_get_last_n_months(data_points[i], n))
Call_MonetaryData_get_current_score(i) ==
    Query(i, "M2", "get_current_score", 0,
          MonetaryData_get_current_score(data_points[i]))

\* appends of a few readings, with and without an explicit change
NextAppend ==
    \/ \E i \in Instances, change \in QueryChanges :
        \/ \E value \in QueryISMValues : ISMData_add_data_point(i, value, change)
        \/ \E value \in QueryNMIValues : NMIData_add_data_point(i, value, change)
        \/ \E value \in QueryUMCSIValues :
              UMCSIData_add_data_point(i, value, change)
    \/ \E i \in Instances, value \in QueryM2Values :
          MonetaryData_add_data_point(i, value)

NextQuery ==
    \/ NextAppend
    \/ \E i \in Instances :
        \/ Call_ISMData_get_all_data(i)
        \/ Call_ISMData_get_current_score(i)
        \/ Call_NMIData_get_all_data(i)
        \/ Call_NMIData_get_current_score(i)
        \/ Call_UMCSIData_get_all_data(i)
        \/ Call_UMCSIData_get_current_score(i)
        \/ Call_MonetaryData_get_all_data(i)
        \/ Call_MonetaryData_get_current_score(i)
    \/ \E i \in Instances, n \in QueryN :
        \/ Call_ISMData_get_last_n_months(i, n)
        \/ Call_NMIData_get_last_n_months(i, n)
        \/ Call_UMCSIData_get_last_n_months(i, n)
        \/ Call_MonetaryData_get_last_n_months(i, n)

SpecQuery == Init /\ [][NextQuery]_vars

---------------------------------------------------------------------------
(* State machine of appends whose value may be absent (None) *)

HasValue(p) == "value" \in DOMAIN p
\* the series is not empty and its last point's value is None
LastAbsent(dps) == Len(dps) > 0 /\ ~HasValue(dps[Len(dps)])

\* ISMData.add_data_point raises TypeError: in `value - previous_value` when
\* the change is derived and either operand is None, or in calculate_score's
\* comparisons of current_ism when the change is present and the value is None
ISMData_add_raises(dps, value, change) ==
    IF IsNone(change) /\ Len(dps) > 0
    THEN IsNone(value) \/ LastAbsent(dps)
    ELSE ~IsNone(change) /\ IsNone(value)

\* the point appended when nothing is raised; a stored previous value of None
\* is passed to calculate_score as previous_ism = None
ISMData_new_point_optional(dps, value, change) ==
    IF IsNone(value) THEN [change |-> change, score_info |-> None]
    ELSE IF LastAbsent(dps)
    THEN [value |-> Get(value), change |-> change,
          score_info |-> ISMDataPoint_calculate_score(Get(value), change, None)]
    ELSE ISMData_new_point(dps, Get(value), change)

NMIData_add_raises(dps, value, change) ==
    IF IsNone(change) /\ Len(dps) > 0
    THEN IsNone(value) \/ LastAbsent(dps)
    ELSE ~IsNone(change) /\ IsNone(value)

NMIData_new_point_optional(dps, value, change) ==
    IF IsNone(value) THEN [change |-> change, score_info |-> None]
    ELSE IF LastAbsent(dps)
    THEN [value |-> Get(value), change |-> change,
          score_info |-> NMIDataPoint_calculate_score(Get(value), change, None)]
    ELSE NMIData_new_point(dps, Get(value), change)

\* UMCSIData.add_data_point raises TypeError in `value - previous_value`;
\* calculate_score returns None for a value of None
UMCSIData_add_raises(dps, value, change) ==
    IsNone(change) /\ Len(dps) > 0 /\ (IsNone(value) \/ LastAbsent(dps))

UMCSIData_new_point_optional(dps, value, change) ==
    IF IsNone(value) THEN [change |-> change, score |-> None]
    ELSE IF LastAbsent(dps)
    THEN [value |-> Get(value), change |-> change,
          score |-> UMCSIDataPoint_calculate_score(Get(value))]
    ELSE UMCSIData_new_point(dps, Get(value), change)

\* MonetaryData.add_data_point raises TypeError in sum(recent_values) when
\* one of the three values is None
MonetaryData_add_raises(dps, value) ==
    /\ MonetaryDataPoint_has_metrics(dps)
    /\ \/ IsNone(value)
       \/ ~HasValue(dps[Len(dps) - 1])
       \/ ~HasValue(dps[Len(dps)])

MonetaryData_new_point_optional(dps, value) ==
    IF IsNone(value)
    THEN [three_month_avg |-> None, percent_change |-> None, score |-> None]
    ELSE MonetaryData_new_point(dps, Get(value))

\* add_data_point either raises before the append or appends and returns
AppendOrRaise(i, raises, new_point) ==
    /\ Len(data_points[i]) < MaxLen
    /\ IF raises
       THEN /\ data_points' = data_points
            /\ Raises(i, "add_data_point", 0, "TypeError")
       ELSE /\ data_points' = [data_points EXCEPT ![i] = Append(@, new_point)]
            /\ Returns(i, "add_data_point", 0, None)
    /\ UNCHANGED <<kind, calls, point>>

ISMData_add_data_point_optional(i, value, change) ==
    /\ kind[i] = "ISM"
    /\ AppendOrRaise(i, ISMData_add_raises(data_points[i], value, change),
                     ISMData_new_point_optional(data_points[i], value, change))

NMIData_add_data_point_optional(i, value, change) ==
    /\ kind[i] = "NMI"
    /\ AppendOrRaise(i, NMIData_add_raises(data_points[i], value, change),
                     NMIData_new_point_optional(data_points[i], value, change))

UMCSIData_add_data_point_optional(i, value, change) ==
    /\ kind[i] = "UMCSI"
    /\ AppendOrRaise(i, UMCSIData_add_raises(data_points[i], value, change),
                     UMCSIData_new_point_optional(data_points[i], value, change))

MonetaryData_add_data_point_optional(i, value) ==
    /\ kind[i] = "M2"
    /\ AppendOrRaise(i, MonetaryData_add_raises(data_points[i], value),
                     MonetaryData_new_point_optional(data_points[i], value))

NextDegenerate ==
    \/ \E i \in Instances, change \in QueryChanges :
        \/ \E value \in DegenerateISMValues :
              ISMData_add_data_point_optional(i, value, change)
        \/ \E value \in DegenerateNMIValues :
              NMIData_add_data_point_optional(i, value, change)
        \/ \E value \in DegenerateUMCSIValues :
              UMCSIData_add_data_point_optional(i, value, change)
    \/ \E i \in Instances, value \in DegenerateM2Values :
          MonetaryData_add_data_point_optional(i, value)

SpecDegenerate == Init /\ [][NextDegenerate]_vars

---------------------------------------------------------------------------
(* State machine of two accumulators whose appends interleave *)

\* two accumulators are built, of the same class or of different ones
InitPair ==
    /\ kind \in [Instances -> Kinds]
    /\ data_points = [i \in Instances |-> <<>>]
    /\ calls = [i \in Instances |-> <<>>]
    /\ point = NoPoint
    /\ result = NoResult

\* the next append goes to either accumulator
NextPair ==
    \E i \in Instances :
        /\ Len(data_points[i]) < MaxPairLen
        /\ \/ \E value \in QueryISMValues, change \in QueryChanges :
                 ISMData_add_data_point(i, value, change)
           \/ \E value \in QueryNMIValues, change \in QueryChanges :
                 NMIData_add_data_point(i, value, change)
           \/ \E value \in QueryUMCSIValues, change \in QueryChanges :
                 UMCSIData_add_data_point(i, value, change)
           \/ \E value \in QueryM2Values : MonetaryData_add_data_point(i, value)

SpecPair == InitPair /\ [][NextPair]_vars

---------------------------------------------------------------------------
(* State machine of a diffusion accumulator that derives every change *)

\* one ISMData or NMIData is built
InitDerived ==
    /\ kind \in [Instances -> {"ISM", "NMI", NoKind}]
    /\ kind[1] # NoKind
    /\ kind[2] = NoKind
    /\ data_points = [i \in Instances |-> <<>>]
    /\ calls = [i \in Instances |-> <<>>]
    /\ point = NoPoint
    /\ result = NoResult

\* add_data_point(date, value): the change argument keeps its default, None
NextDerived ==
    \E i \in Instances, value \in DerivedValues :
        \/ ISMData_add_data_point(i, value, None)
        \/ NMIData_add_data_point(i, value, None)

SpecDerived == InitDerived /\ [][NextDerived]_vars

---------------------------------------------------------------------------
(* Properties of the diffusion scorers and the accumulators (Spec) *)

Diffusion == {i \in Instances : kind[i] \in {"ISM", "NMI"}}
Derived == {i \in Instances : kind[i] \in {"ISM", "NMI", "UMCSI"}}
Idx(i) == 1 .. Len(data_points[i])

\* the value stored just before observation n of instance i (n > 1)
PrevValue(i, n) == data_points[i][n - 1].value

TroughCase(i, n) ==
    /\ n > 1
    /\ ~IsNone(data_points[i][n].change)
    /\ PrevValue(i, n) > Fifty
    /\ data_points[i][n].value <= Fifty

PeakCase(i, n) ==
    /\ n > 1
    /\ ~IsNone(data_points[i][n].change)
    /\ PrevValue(i, n) < Fifty
    /\ data_points[i][n].value >= Fifty

StandardScenarios ==
    {"Above 50 and growing", "Above 50 and slowing",
     "Below 50 and slowing", "Below 50 and growing"}

TransitionScenarios ==
    {"ISM troughs below 50", "NMI troughs below 50",
     "ISM peaks above 50", "NMI peaks above 50"}

StandardExpected(value, c) ==
    IF value > Fifty /\ c > 0
    THEN [score |-> Round1(500 + Min(300, c \div 2)), bias |-> "Short Bias",
          phase |-> "Initiation", scenario |-> "Above 50 and growing"]
    ELSE IF value > Fifty /\ c <= 0
    THEN [score |-> Round1(Max(0, 500 + c)), bias |-> "Short Bias",
          phase |-> "Initiation", scenario |-> "Above 50 and slowing"]
    ELSE IF value <= Fifty /\ c < 0
    THEN [score |-> Round1(-500 - Min(300, Abs(c) \div 2)), bias |-> "Long Bias",
          phase |-> "Definition", scenario |-> "Below 50 and slowing"]
    ELSE [score |-> Round1(Min(0, -500 + c)), bias |-> "Long Bias",
          phase |-> "Definition", scenario |-> "Below 50 and growing"]

\* C3: when the change is present and no transition fires (or there is no
\* previous value), the result is exactly one of the four standard branches,
\* chosen by current > 50 or current <= 50 and by the sign of the change, with
\* current = 50 counted as below, change = 0 as slowing above 50 and as
\* growing at or below 50, and the score, bias and phase of that branch.
C3_StandardScenarios ==
    \A i \in Diffusion : \A n \in Idx(i) :
        LET p == data_points[i][n]
        IN  (~IsNone(p.change) /\ ~TroughCase(i, n) /\ ~PeakCase(i, n)) =>
                /\ p.score_info = Some(StandardExpected(p.value, Get(p.change)))
                /\ (p.value = Fifty) =>
                     Get(p.score_info).scenario \in
                         {"Below 50 and slowing", "Below 50 and growing"}
                /\ (Get(p.change) = 0 /\ p.value > Fifty) =>
                     Get(p.score_info).scenario = "Above 50 and slowing"
                /\ (Get(p.change) = 0 /\ p.value <= Fifty) =>
                     Get(p.score_info).scenario = "Below 50 and growing"

\* an NMI series 50, 50, 52: current = 50 with change 0 is "below and growing"
\* (-5); then 52 with previous exactly 50 is "above and growing" (+6)
C3_Witness ==
    \E i \in Instances :
        /\ kind[i] = "NMI"
        /\ Len(data_points[i]) = 3
        /\ data_points[i][2].value = Fifty
        /\ data_points[i][2].change = Some(0)
        /\ Get(data_points[i][2].score_info).scenario = "Below 50 and growing"
        /\ Get(data_points[i][2].score_info).score = -500
        /\ data_points[i][3].value = 5200
        /\ data_points[i][3].change = Some(200)
        /\ Get(data_points[i][3].score_info).scenario = "Above 50 and growing"
        /\ Get(data_points[i][3].score_info).score = 600

\* C4: an ISM or NMI observation appended first, with its change supplied, is
\* scored by one of the four standard scenarios only, whatever the value and
\* the change are, also when value - change lies on the other side of 50.
C4_FirstObservation ==
    \A i \in Diffusion :
        (Len(data_points[i]) >= 1 /\ ~IsNone(calls[i][1].change)) =>
            LET p == data_points[i][1]
            IN  /\ ~IsNone(p.score_info)
                /\ Get(p.score_info).scenario \in StandardScenarios
                /\ Get(p.score_info).scenario \notin TransitionScenarios
                /\ Get(p.score_info).phase \in {"Initiation", "Definition"}
                /\ Get(p.score_info).scenario \in
                     (IF p.value > Fifty
                      THEN {"Above 50 and growing", "Above 50 and slowing"}
                      ELSE {"Below 50 and slowing", "Below 50 and growing"})

\* a first ISM observation 49 with change -7: value - change = 56 is above 50,
\* and the observation is still scored "Below 50 and slowing" (-8)
C4_Witness ==
    \E i \in Instances :
        /\ kind[i] = "ISM"
        /\ Len(data_points[i]) = 1
        /\ data_points[i][1].value = 4900
        /\ data_points[i][1].change = Some(-700)
        /\ data_points[i][1].value - Get(data_points[i][1].change) > Fifty
        /\ Get(data_points[i][1].score_info).scenario = "Below 50 and slowing"
        /\ Get(data_points[i][1].score_info).score = -800

\* the records instance i exports
Exported(i) ==
    IF kind[i] = "ISM" THEN ISMData_get_all_data(data_points[i])
    ELSE NMIData_get_all_data(data_points[i])

\* C5: an ISM or NMI observation has no change exactly when it was appended
\* first and without an explicit change; it is then still appended, has no
\* score, and its exported record has score, bias, phase and scenario all
\* absent (not 0, not a default label); every observation whose change is
\* present has a defined score.
C5_MissingChangeNoScore ==
    \A i \in Diffusion :
        /\ Len(data_points[i]) = Len(calls[i])
        /\ Len(Exported(i)) = Len(calls[i])
        /\ \A n \in Idx(i) :
             LET p == data_points[i][n]
                 d == Exported(i)[n]
             IN  /\ IsNone(p.change) <=> (n = 1 /\ IsNone(calls[i][1].change))
                 /\ p.value = calls[i][n].value /\ d.value = calls[i][n].value
                 /\ IsNone(p.change) =>
                      /\ p.score_info = None
                      /\ d.change = None
                      /\ d.score = None /\ d.bias = None
                      /\ d.phase = None /\ d.scenario = None
                 /\ ~IsNone(p.change) =>
                      /\ ~IsNone(d.score)
                      /\ d.score = Some(Get(p.score_info).score)

\* an NMI series whose first observation came without a change and whose
\* second one is scored
C5_Witness ==
    \E i \in Instances :
        /\ kind[i] = "NMI"
        /\ Len(data_points[i]) = 2
        /\ IsNone(calls[i][1].change)
        /\ data_points[i][1].value = 5200
        /\ Exported(i)[1].score = None
        /\ Exported(i)[1].scenario = None
        /\ Exported(i)[2].score # None

\* C6: in ISMData, NMIData and UMCSIData an observation appended without an
\* explicit change to a non-empty series has change = its value minus the
\* value appended immediately before it (52.0 then 53.5 gives 1.5); a supplied
\* change is stored unchanged; the first observation has no change unless one
\* is supplied.
C6_DerivedChange ==
    \A i \in Derived : \A n \in Idx(i) :
        LET p == data_points[i][n]
            a == calls[i][n]
        IN  /\ ~IsNone(a.change) => p.change = a.change
            /\ (IsNone(a.change) /\ n = 1) => p.change = None
            /\ (IsNone(a.change) /\ n > 1) =>
                 /\ p.change = Some(a.value - calls[i][n - 1].value)
                 /\ (calls[i][n - 1].value = 5200 /\ a.value = 5350) =>
                      p.change = Some(150)

\* an ISM series 52.0, 53.5 appended without changes, then 51 with change 7
C6_Witness ==
    \E i \in Instances :
        /\ kind[i] = "ISM"
        /\ calls[i] = << [value |-> 5200, change |-> None],
                         [value |-> 5350, change |-> None],
                         [value |-> 5100, change |-> Some(700)] >>
        /\ data_points[i][1].change = None
        /\ data_points[i][2].change = Some(150)
        /\ data_points[i][3].change = Some(700)

\* (Jan, 52.0), (Feb, 53.5), (Mar, 49.0), no change supplied
SampleData ==
    << [value |-> 5200, change |-> None],
       [value |-> 5350, change |-> None],
       [value |-> 4900, change |-> None] >>

\* C7: appending 52.0, 53.5, 49.0 to an empty ISMData without explicit changes
\* yields, in order, Jan with no score, Feb with change +1.5 and scenario
\* "Above 50 and growing", and Mar with scenario "ISM troughs below 50".
C7_EndToEndISM ==
    \A i \in Instances :
        (kind[i] = "ISM" /\ Len(calls[i]) <= 3
            /\ calls[i] = SubSeq(SampleData, 1, Len(calls[i]))) =>
            LET out == ISMData_get_all_data(data_points[i])
            IN  /\ Len(out) = Len(calls[i])
                /\ Len(out) >= 1 =>
                     /\ out[1].value = 5200
                     /\ out[1].score = None /\ out[1].scenario = None
                /\ Len(out) >= 2 =>
                     /\ out[2].value = 5350
                     /\ out[2].change = Some(150)
                     /\ out[2].scenario = Some("Above 50 and growing")
                /\ Len(out) >= 3 =>
                     /\ out[3].value = 4900
                     /\ out[3].scenario = Some("ISM troughs below 50")

\* the three sample observations have all been appended to an ISMData
C7_Witness ==
    \E i \in Instances :
        /\ kind[i] = "ISM"
        /\ calls[i] = SampleData
        /\ Len(data_points[i]) = 3
        /\ Get(data_points[i][3].score_info).scenario = "ISM troughs below 50"

---------------------------------------------------------------------------
(* Properties of the nearest-threshold scorers (SpecScorer) *)

TableOf(cls) ==
    IF cls = "CPI" THEN CPI_score_table
    ELSE IF cls = "IR" THEN IR_score_table
    ELSE Permit_score_table

Scored == point.cls \in {"CPI", "IR", "Permit"}

\* outside the CPI zero guard: every interest-rate or permits point, and a
\* CPI point whose input is at least 0.01 away from 0
ThroughTable == Scored /\ (point.cls = "CPI" => Abs(point.input) >= CPIZeroGuard)

\* the table entries whose key is nearest to v
Nearest(table, v) ==
    {j \in DOMAIN table :
        \A k \in DOMAIN table : Abs(table[j][1] - v) <= Abs(table[k][1] - v)}

\* C8: for the CPI (outside the zero guard), interest-rate and permits
\* scorers the score is the table score of a key minimising |key - value|; a
\* value beyond the table's range gets the boundary key's score (CPI >= 1.4
\* gives 3, CPI <= -0.7 gives 10; rate >= 60 or <= -60 gives -10; permits
\* <= 400 gives 10, permits >= 2400 gives -10); the score is never absent.
C8_NearestThreshold ==
    Scored =>
        /\ ~IsNone(point.score)
        /\ ThroughTable =>
             \E j \in Nearest(TableOf(point.cls), point.input) :
                 Get(point.score) = TableOf(point.cls)[j][2]
        /\ (point.cls = "CPI" /\ point.input >= 1400) => Get(point.score) = 3
        /\ (point.cls = "CPI" /\ point.input <= -700) => Get(point.score) = 10
        /\ (point.cls = "IR" /\ (point.input >= 600 \/ point.input <= -600)) =>
             Get(point.score) = -10
        /\ (point.cls = "Permit" /\ point.input <= 400) => Get(point.score) = 10
        /\ (point.cls = "Permit" /\ point.input >= 2400) => Get(point.score) = -10

\* a CPI reading of 1.65, beyond the table's largest key 1.4, scores 3
C8_Witness ==
    /\ point.cls = "CPI"
    /\ point.input = 1650
    /\ point.score = Some(3)

\* the distance the scorer of class cls computes between a key and the input
Computed(cls, key, v) ==
    IF cls = "CPI" THEN CPI_distance(key, v) ELSE 2 * Abs(key - v)

\* the entries of the table at minimal computed distance from the input
Tied(cls, v) ==
    {j \in DOMAIN TableOf(cls) :
        \A k \in DOMAIN TableOf(cls) :
            Computed(cls, TableOf(cls)[j][1], v) <= Computed(cls, TableOf(cls)[k][1], v)}

\* C9: when the input is equidistant from two table keys, the score is that of
\* the key declared first in the table: rate 2.5 scores like key 5 (-3) and
\* -7.5 like key -5 (0); permits 750 scores like key 700 (7) and 1850 like
\* key 1800 (10); the CPI list is searched from its first entry, 1.4.
C9_TieBreakFirstDeclared ==
    ThroughTable =>
        LET t == TableOf(point.cls)
            tied == Tied(point.cls, point.input)
            first == CHOOSE j \in tied : \A k \in tied : j <= k
        IN  /\ Get(point.score) = t[first][2]
            /\ (point.cls = "IR" /\ point.input = 25) => Get(point.score) = -3
            /\ (point.cls = "IR" /\ point.input = -75) => Get(point.score) = 0
            /\ (point.cls = "Permit" /\ point.input = 750) => Get(point.score) = 7
            /\ (point.cls = "Permit" /\ point.input = 1850) => Get(point.score) = 10
            /\ (point.cls = "CPI" /\ point.input = 900) => Get(point.score) = 10

\* a rate of 2.5, halfway between the keys 5 and 0, scores -3
C9_Witness ==
    /\ point.cls = "IR"
    /\ point.input = 25
    /\ Cardinality(Tied("IR", 25)) = 2
    /\ point.score = Some(-3)

\* the table with the score of entry j replaced by the nonzero mark 100 + j
Marked(table) == [j \in DOMAIN table |-> <<table[j][1], 100 + j>>]

\* C10: for every CPI input v with |v| < 0.01 the score is 0 whatever the
\* table holds (also over a table none of whose scores is 0); the
\* interest-rate and permits scorers have no such guard: over any table, and
\* for inputs next to 0 too, their score is that of a nearest key's entry.
C10_CPIZeroGuard ==
    /\ (point.cls = "CPI" /\ Abs(point.input) < CPIZeroGuard) =>
         /\ point.score = Some(0)
         /\ CPI_score_on(Marked(CPI_score_table), point.input) = 0
    /\ point.cls = "IR" =>
         \E j \in Nearest(IR_score_table, point.input) :
             /\ Get(point.score) = IR_score_table[j][2]
             /\ IR_score_on(Marked(IR_score_table), point.input) = 100 + j
    /\ point.cls = "Permit" =>
         \E j \in Nearest(Permit_score_table, point.input) :
             /\ Get(point.score) = Permit_score_table[j][2]
             /\ Permit_score_on(Marked(Permit_score_table), point.input) = 100 + j
             /\ Get(point.score) # 0 \/ Abs(point.input) >= CPIZeroGuard

\* a CPI reading of 0.009 scores 0, and would over a table without a 0 score
C10_Witness ==
    /\ point.cls = "CPI"
    /\ point.input = 9
    /\ point.score = Some(0)
    /\ CPI_closest(Marked(CPI_score_table), point.input)[2] # 0

\* the distance from the key of entry j to its nearest neighbouring key
NeighbourGap(table, j) ==
    LET others == {Abs(table[k][1] - table[j][1]) : k \in DOMAIN table \ {j}}
    IN  CHOOSE g \in others : \A h \in others : g <= h

\* C11: the CPI score of 1.0 is 10 and of 0.0 is 0, and for every table key k
\* and every offset d smaller than half the distance from k to its nearest
\* neighbouring key, the scores of k + d and of k - d are both the table score
\* of k.
C11_CPITableShape ==
    point.cls = "CPI" =>
        /\ point.input = 1000 => point.score = Some(10)
        /\ point.input = 0 => point.score = Some(0)
        /\ \A j \in DOMAIN CPI_score_table :
             LET k == CPI_score_table[j][1]
             IN  2 * Abs(point.input - k) < NeighbourGap(CPI_score_table, j) =>
                   /\ point.score = Some(CPI_score_table[j][2])
                   /\ CPIDataPoint_calculate_score(2 * k - point.input)
                        = CPI_score_table[j][2]

\* a CPI reading of 1.44, 0.04 above the first key 1.4 (nearest neighbour 1.2),
\* scores 3 like the key
C11_Witness ==
    /\ point.cls = "CPI"
    /\ point.input = 1440
    /\ NeighbourGap(CPI_score_table, 1) = 200
    /\ point.score = Some(3)
    /\ CPIDataPoint_calculate_score(1360) = 3

---------------------------------------------------------------------------
(* Properties of the band scorer (SpecScorer) *)

Band == 55 .. 105

\* C12: the UMCSI band scorer rounds the value to the nearest integer, clamps
\* it to [55, 105] and returns that integer's table entry: a value rounding
\* to 55 or less scores 10, one rounding to 105 or more scores -10, 54.9
\* scores like 55 and 105.4 like 105; the table holds every integer from 55
\* to 105, so the looked-up key is always in it and the fallback 0 is never
\* what the lookup falls back to.
C12_BandScorer ==
    point.cls = "UMCSI" =>
        LET r == RoundInt(point.input)
        IN  /\ DOMAIN score_map = Band
            /\ UMCSI_clamped_value(point.input) \in DOMAIN score_map
            /\ r \in Band => point.score = Some(score_map[r])
            /\ r <= 55 => point.score = Some(10)
            /\ r >= 105 => point.score = Some(-10)
            /\ point.input = 5490 =>
                 point.score = UMCSIDataPoint_calculate_score(5500)
            /\ point.input = 10540 =>
                 point.score = UMCSIDataPoint_calculate_score(10500)

\* a value of 54.0 rounds to 54, below the band, and scores 10 like 55
C12_Witness ==
    /\ point.cls = "UMCSI"
    /\ point.input = 5400
    /\ RoundInt(point.input) = 54
    /\ point.score = Some(10)

\* the band's keys in declaration order, keys in hundredths
UMCSI_keys == [j \in 1 .. 51 |-> <<100 * (54 + j), score_map[54 + j]>>]

\* the nearest key to v, the even one of two equally near keys
NearestEven(v) ==
    CHOOSE j \in Nearest(UMCSI_keys, v) :
        \A k \in Nearest(UMCSI_keys, v) \ {j} : (UMCSI_keys[j][1] \div 100) % 2 = 0

\* the nearest key to v, the first declared of two equally near keys
NearestFirst(v) ==
    CHOOSE j \in Nearest(UMCSI_keys, v) : \A k \in Nearest(UMCSI_keys, v) : j <= k

\* C13 as stated: the UMCSI score equals a nearest-key lookup over 55..105
\* with ties broken by the first key in declaration order, for every input,
\* 62.5 and 63.5 included.
C13_NearestKeyFirstDeclared ==
    point.cls = "UMCSI" => point.score = Some(UMCSI_keys[NearestFirst(point.input)][2])

\* C13 as amended: the UMCSI score equals a nearest-key lookup over 55..105
\* with a tie between two keys (a value ending in .5) going to the even key:
\* 62.5 scores like 62, and 63.5 like 64, not like the first-declared 63.
C13_NearestKeyEvenTie ==
    point.cls = "UMCSI" =>
        point.score = Some(UMCSI_keys[NearestEven(point.input)][2])

\* 63.5 is equally near 63 and 64; it scores -9 like 64, while the
\* first-declared nearest key is 63, whose score is -10
C13_Witness ==
    /\ point.cls = "UMCSI"
    /\ point.input = 6350
    /\ Cardinality(Nearest(UMCSI_keys, point.input)) = 2
    /\ UMCSI_keys[NearestFirst(point.input)] = <<6300, -10>>
    /\ point.score = Some(-9)

---------------------------------------------------------------------------
(* Properties of the M2 accumulator (Spec) *)

Monetary == {i \in Instances : kind[i] = "M2"}

\* C14: every observation appended to MonetaryData is scored on append, and
\* its stored score is the threshold cascade applied to its own value, whatever
\* the average and whatever was appended before it.
C14_ScoreDecoupling ==
    \A i \in Monetary : \A n \in Idx(i) :
        data_points[i][n].score
            = Some(MonetaryDataPoint_calculate_score(data_points[i][n].value))

\* C15: an M2 observation's three_month_avg is present exactly when at least
\* two observations were appended before it, and is then the mean of the two
\* values appended just before it and its own value (kept as their sum, three
\* times the mean); the first two observations have none.
C15_MovingAverage ==
    \A i \in Monetary : \A n \in Idx(i) :
        /\ IsNone(data_points[i][n].three_month_avg) <=> n <= 2
        /\ n > 2 =>
             data_points[i][n].three_month_avg
                 = Some(calls[i][n - 2].value + calls[i][n - 1].value
                            + calls[i][n].value)

\* 0.35, 0.05 and 0.60 were appended: the third observation's average is
\* 1.00 / 3, the first two have none
C15_Witness ==
    \E i \in Monetary :
        /\ Len(data_points[i]) = 3
        /\ data_points[i][1].value = 35
        /\ data_points[i][2].value = 5
        /\ data_points[i][3].value = 60
        /\ IsNone(data_points[i][1].three_month_avg)
        /\ IsNone(data_points[i][2].three_month_avg)
        /\ data_points[i][3].three_month_avg = Some(100)

---------------------------------------------------------------------------
(* Properties of the accumulators' series and queries (SpecQuery) *)

\* instance i has just been appended to
Appended(i) == result'.op = "add_data_point" /\ result'.self = i

\* C16: in every accumulator each add_data_point call makes the series one
\* longer, puts the new observation last and leaves every earlier
\* observation (value, change, score) and their order as they were; no other
\* operation changes a series.
C16_AppendOnly ==
    [][\A i \in Instances :
         IF Appended(i)
         THEN LET k == Len(data_points[i])
              IN  /\ Len(data_points'[i]) = k + 1
                  /\ SubSeq(data_points'[i], 1, k) = data_points[i]
                  /\ data_points'[i][k + 1].value = calls'[i][k + 1].value
         ELSE data_points'[i] = data_points[i]]_vars

\* a third observation has just been appended behind two others
C16_Witness ==
    \E i \in Instances :
        /\ result.op = "add_data_point"
        /\ result.self = i
        /\ Len(data_points[i]) = 3
        /\ data_points[i][1].value = 5000
        /\ data_points[i][2].value = 5200
        /\ data_points[i][3].value = 5000

\* the instance the last call was made on
Asked == result.self

\* C17: after k appends to any accumulator, get_all_data returns exactly k
\* records, one per appended observation and in append order, and
\* get_current_score returns the record of the last appended observation, or
\* nothing when nothing has been appended.
C17_QueryAPI ==
    /\ result.op = "get_all_data" =>
         /\ Len(result.returned) = Len(calls[Asked])
         /\ \A n \in 1 .. Len(result.returned) :
              result.returned[n].value = calls[Asked][n].value
    /\ result.op = "get_current_score" =>
         IF calls[Asked] = <<>> THEN IsNone(result.returned)
         ELSE /\ ~IsNone(result.returned)
              /\ Get(result.returned).value
                   = calls[Asked][Len(calls[Asked])].value

\* the last Min(n, k) of k records
LastRecords(records, n) ==
    SubSeq(records, Len(records) - Min(n, Len(records)) + 1, Len(records))

\* C20: on an ISMData, NMIData or UMCSIData with k stored observations,
\* get_last_n_months(n) with n >= 0 returns exactly the last min(n, k)
\* observations in append order: none for n = 0, all k for n >= k.
C20_LastN ==
    (result.op = "get_last_n_months" /\ kind[Asked] \in {"ISM", "NMI", "UMCSI"}) =>
        LET all == IF kind[Asked] = "ISM"
                   THEN ISMData_get_all_data(data_points[Asked])
                   ELSE IF kind[Asked] = "NMI"
                   THEN NMIData_get_all_data(data_points[Asked])
                   ELSE UMCSIData_get_all_data(data_points[Asked])
        IN  /\ result.returned = LastRecords(all, result.arg)
            /\ Len(result.returned) = Min(result.arg, Len(data_points[Asked]))

---------------------------------------------------------------------------
(* Properties of two accumulators side by side (SpecPair) *)

\* the point an accumulator of class cls appends to the series dps
NewPoint(cls, dps, call) ==
    IF cls = "ISM" THEN ISMData_new_point(dps, call.value, call.change)
    ELSE IF cls = "NMI" THEN NMIData_new_point(dps, call.value, call.change)
    ELSE IF cls = "UMCSI" THEN UMCSIData_new_point(dps, call.value, call.change)
    ELSE MonetaryData_new_point(dps, call.value)

\* the series a fresh accumulator of class cls holds after the first n of the
\* calls cs, run alone and in order
RECURSIVE Alone(_, _, _)
Alone(cls, cs, n) ==
    IF n = 0 THEN <<>>
    ELSE LET before == Alone(cls, cs, n - 1)
         IN  Append(before, NewPoint(cls, before, cs[n]))

\* C18: two accumulators, of the same class or not, share nothing: however
\* their appends interleave, each holds exactly the observations, changes and
\* scores that its own appends, run alone in the same order, would give it.
C18_SeriesIndependence ==
    \A i \in Instances :
        data_points[i] = Alone(kind[i], calls[i], Len(calls[i]))

\* two ISMData were fed 50.0 then 52.0, and 52.0 then 50.0, without changes:
\* each derived its change from its own previous value
C18_Witness ==
    /\ kind[1] = "ISM"
    /\ kind[2] = "ISM"
    /\ calls[1] = <<[value |-> 5000, change |-> None],
                    [value |-> 5200, change |-> None]>>
    /\ calls[2] = <<[value |-> 5200, change |-> None],
                    [value |-> 5000, change |-> None]>>
    /\ Len(data_points[1]) = 2
    /\ Len(data_points[2]) = 2
    /\ data_points[1][2].change = Some(200)
    /\ data_points[2][2].change = Some(-200)

---------------------------------------------------------------------------
(* Properties of appends with degenerate inputs (SpecDegenerate) *)

\* C19: no degenerate input to an accumulator append (an absent change, an
\* absent value, a value far outside every table) makes it raise: the call
\* completes, with a score or with none, also when an absent value is
\* appended to a non-empty ISMData, NMIData or UMCSIData and the change has to
\* be derived.
C19_NoFatalPath ==
    result.op = "add_data_point" => result.raised = NoError

---------------------------------------------------------------------------
(* Properties of derived-change series (SpecDerived) *)

\* every change of instance i was left to the accumulator to derive
AllDerived(i) == \A n \in 1 .. Len(calls[i]) : IsNone(calls[i][n].change)

Within(score, low, high) == low <= score /\ score <= high

---------------------------------------------------------------------------
(* Properties of the M2 cascade (SpecScorer) *)

\* the bands written after a band with a lower or equal bound: >= 0.5 (score
\* 0), >= -0.10 (score -10), >= -0.15, >= -0.20, >= -0.30 and >= -0.40
DeadBands == {7, 10, 11, 12, 13, 14}

\* C22: the M2 cascade takes the first band, in written order, whose inclusive
\* lower bound the value reaches, so its only scores are 4, 6, 10, 8, -4, -8
\* and 0.10: a value >= 0.50 scores 4, one in [0.0, 0.10) scores -4, one in
\* [-0.5, 0.0) scores -8, one below -0.5 scores 0.10, and the bands written
\* for >= 0.5 (score 0), >= -0.10 (score -10), >= -0.15, >= -0.20, >= -0.30
\* and >= -0.40 are never taken.
C22_CascadeReachability ==
    point.cls = "M2" =>
        LET value == point.input
            score == Get(point.score)
            band == MonetaryDataPoint_band(value)
            reached == {j \in DOMAIN M2_bands : value >= M2_bands[j][1]}
        IN  /\ score \in {400, 600, 1000, 800, -400, -800, 10}
            /\ value >= 50 => score = 400
            /\ (0 <= value /\ value < 10) => score = -400
            /\ (-50 <= value /\ value < 0) => score = -800
            /\ value < -50 => score = 10
            /\ band \notin DeadBands
            /\ reached # {} => band \in reached /\ \A j \in reached : band <= j
            /\ reached = {} => band = Len(M2_bands) + 1

\* exactly 0.50 reaches the bound of the first band and of the seventh (the
\* one written for >= 0.5, score 0): the first is taken and the score is 4
C22_Witness ==
    /\ point.cls = "M2"
    /\ point.input = 50
    /\ point.input >= M2_bands[7][1]
    /\ MonetaryDataPoint_band(point.input) = 1
    /\ point.score = Some(400)

====
